---- MODULE Spec2Model ----
(***************************************************************************)
(* Model of the TaskVoloners API server (src/App.js, the Express section) *)
(* over its PostgreSQL store.  Every awaited SQL statement is one atomic   *)
(* step of the request that issues it; the JavaScript between two awaits   *)
(* belongs to the step of the statement that follows it.  Requests are     *)
(* handled concurrently; each element of Procs is one request.             *)
(*                                                                         *)
(* The table definitions are not part of src/.  The store is modelled from *)
(* the SQL text of the handlers; the two constraints of volunteer_roles    *)
(* that the handlers cannot tell apart from their absence without racing   *)
(* (UNIQUE (volunteer_id, role_id) and the foreign key on role_id) are a   *)
(* choice made in Init, so that no result rests on a guess about them.     *)
(* The default of volunteer_roles.attended is AttendedDefault.             *)
(*                                                                         *)
(* NOW() is the variable now; every statement reads it for itself, and     *)
(* Tick moves it.  The page section models AuthProvider                    *)
(* (src/unnamed/part_000), one step per statement of its synchronous code. *)
(***************************************************************************)
EXTENDS Integers, Sequences, FiniteSets, TLC

\* ---------------------------------------------------------------- bounds
NumProcs == 2       \* requests the server receives
NumOrgs == 2        \* organizations.id is 1..NumOrgs
NumVols == 3        \* volunteers.id is 1..NumVols (a separate SERIAL)
MaxRoles == 2       \* longest roles[] of a createEvent body
MaxTx == 1          \* createEvent requests being handled at one time
MaxDate == 2        \* event dates are the instants 1..MaxDate
NumCalls == 2       \* calls of login() a page makes

Procs == 1..NumProcs
OrgIds == 1..NumOrgs
VolIds == 1..NumVols

\* Instants.  The clock starts before every date an event can carry and can
\* run past the last of them.
Dates == 1..MaxDate
Clock == 0..(MaxDate + 1)

\* ------------------------------------------------------------- credentials
\* jwt.sign payloads of the accounts that exist (lines 86, 103, 123).
Payloads ==
    [userId : OrgIds, userType : {"org"}] \cup [userId : VolIds, userType : {"volunteer"}]

NoUser == [userId |-> 0, userType |-> "none"]

\* The Authorization header of a request: absent, present without a second
\* field, carrying a token jwt.verify rejects, or carrying a signed payload.
Headers ==
    {[kind |-> k, payload |-> NoUser] : k \in {"absent", "notoken", "invalid"}}
        \cup {[kind |-> "valid", payload |-> u] : u \in Payloads}

\* A request to a route without authenticateToken: its header is not read.
Headers0 == [kind |-> "absent", payload |-> NoUser]

\* ------------------------------------------------------------------ inputs
\* One element of roles[] in a createEvent body (name and description carry
\* no behaviour and are left out).
RoleInputs == {[required |-> 2], [required |-> -1]}

RECURSIVE SeqsUpTo(_, _)
SeqsUpTo(S, n) ==
    IF n = 0 THEN {<<>>}
    ELSE LET shorter == SeqsUpTo(S, n - 1)
         IN  shorter \cup {Append(s, x) : s \in {t \in shorter : Len(t) = n - 1}, x \in S}

RolesInputs == SeqsUpTo(RoleInputs, MaxRoles)

\* The constraints the volunteer_roles table of a deployment may carry.
Schemas == SUBSET {"unique", "fk"}

\* The value of volunteer_roles.attended in a row inserted without one: the
\* INSERT of line 236 names no such column, so the flag of a new row is the
\* column's default.
AttendedDefault == FALSE

VARIABLES
    events,             \* committed rows of events
    roles,              \* committed rows of roles
    volunteer_roles,    \* committed rows of volunteer_roles
    nextEventId,        \* events_id_seq
    nextRoleId,         \* roles_id_seq
    nextRowId,          \* volunteer_roles_id_seq
    constraints,        \* constraints of volunteer_roles in this deployment
    held,               \* clients checked out of the pool and not released
    now,                \* what NOW() returns to a statement
    req,                \* per process: the request it is handling
    currentUser,        \* AuthProvider: the state of useState(null)
    loading,            \* AuthProvider: the state of useState(true)
    localStorage,       \* the items 'token' and 'user'
    authorization,      \* api.defaults.headers.common['Authorization']
    calls,              \* per call of login(): how far it is
    running,            \* the code of AuthProvider that is on the stack
    issued              \* tokens signed so far by POST /api/login

store == <<events, roles, volunteer_roles>>
seqs == <<nextEventId, nextRoleId, nextRowId>>
server == <<events, roles, volunteer_roles, nextEventId, nextRoleId, nextRowId,
            constraints, held, now, req>>
page == <<currentUser, loading, localStorage, authorization, calls, running, issued>>
vars == <<events, roles, volunteer_roles, nextEventId, nextRoleId, nextRowId,
          constraints, held, now, req,
          currentUser, loading, localStorage, authorization, calls, running, issued>>

NoEvent == [id |-> 0, organizer_id |-> 0, date |-> 0]

Idle ==
    [op |-> "idle", pc |-> "idle", hdr |-> Headers0,
     user |-> NoUser, arg |-> 0, attended |-> FALSE, roles |-> <<>>, date |-> 0,
     resp |-> 0, rows |-> {}, found |-> NoEvent, hit |-> FALSE,
     upcoming |-> <<>>, past |-> <<>>, totalEvents |-> 0, totalHours |-> 0,
     txEvent |-> NoEvent, txRoles |-> {}, next |-> 1,
     client |-> "none", broken |-> FALSE, failed |-> FALSE, evId |-> 0]

\* res.status(code) / res.sendStatus(code): the request is answered.
Respond(r, code) == [r EXCEPT !.pc = "done", !.resp = code]
RespondRows(r, code, rs) == [r EXCEPT !.pc = "done", !.resp = code, !.rows = rs]

\* ------------------------------------------------------------ a request
AuthOps == {"createEvent", "signup", "listAssignments", "setAttendance", "profile"}

\* A request arrives.  What it carries besides the header (req.params,
\* req.body) is chosen where the handler first reads it.
Begin(p, op, hdr) ==
    /\ req[p].pc = "idle"
    /\ req' = [req EXCEPT ![p] =
                  [Idle EXCEPT !.op = op, !.hdr = hdr,
                               !.pc = IF op \in AuthOps THEN "auth" ELSE "run"]]
    /\ UNCHANGED <<store, seqs, constraints, held, now, page>>

\* Ids a request can name: those a sequence has handed out and the first one
\* it has not.
Ids(nextId) == 1..nextId

\* --------------------------------------------------- authenticateToken
\* Mutant: the token is decoded but its signature is not verified, so a
\* rejected token passes with the payload it claims.
AuthenticateTokenSkipVerify(p) ==
    /\ req[p].pc = "auth"
    /\ req' = [req EXCEPT ![p] =
                  IF req[p].hdr.kind \in {"absent", "notoken"}
                  THEN Respond(req[p], 401)
                  ELSE [req[p] EXCEPT !.user = [userId |-> 1, userType |-> "org"],
                                      !.pc = "run"]]
    /\ UNCHANGED <<store, seqs, constraints, held, now, page>>

AuthenticateToken(p) ==
    /\ req[p].pc = "auth"
    /\ req' = [req EXCEPT ![p] =
                  IF req[p].hdr.kind \in {"absent", "notoken"}
                  THEN Respond(req[p], 401)
                  ELSE IF req[p].hdr.kind = "invalid"
                  THEN Respond(req[p], 403)
                  ELSE [req[p] EXCEPT !.user = req[p].hdr.payload, !.pc = "run"]]
    /\ UNCHANGED <<store, seqs, constraints, held, now, page>>


\* ------------------------------------------- POST /api/roles/:roleId/signup
\* Rows of volunteer_roles for a (volunteer, role) pair.
Signups(v, r) == {a \in volunteer_roles : a.volunteer_id = v /\ a.role_id = r}

RoleExists(r) == \E x \in roles : x.id = r

\* Lines 221-229: the kind check, then the existence SELECT.
SignupSelect(p) ==
    /\ req[p].op = "signup" /\ req[p].pc = "run"
    /\ IF req[p].user.userType # "volunteer"
       THEN req' = [req EXCEPT ![p] = Respond(req[p], 403)]
       ELSE \E roleId \in Ids(nextRoleId) :
               req' = [req EXCEPT ![p] =
                          [req[p] EXCEPT !.arg = roleId,
                                         !.hit = (Signups(req[p].user.userId, roleId) # {}),
                                         !.pc = "insert"]]
    /\ UNCHANGED <<store, seqs, constraints, held, now, page>>

\* What the INSERT of line 235 does to the table: nextval is taken before the
\* constraints are checked, so a rejected INSERT still consumes an id.
InsertRejected(v, r) ==
    \/ "fk" \in constraints /\ ~RoleExists(r)
    \/ "unique" \in constraints /\ Signups(v, r) # {}

\* Mutant: a role that has the volunteers it asks for takes no more.
SignupInsertCapped(p) ==
    /\ req[p].op = "signup" /\ req[p].pc = "insert"
    /\ LET v == req[p].user.userId
           r == req[p].arg
           full == \E x \in roles :
                      /\ x.id = r
                      /\ Cardinality({a \in volunteer_roles : a.role_id = r}) >= x.required
       IN  IF req[p].hit \/ full
           THEN /\ req' = [req EXCEPT ![p] = Respond(req[p], 400)]
                /\ UNCHANGED <<volunteer_roles, nextRowId>>
           ELSE /\ nextRowId' = nextRowId + 1
                /\ IF InsertRejected(v, r)
                   THEN /\ req' = [req EXCEPT ![p] = Respond(req[p], 500)]
                        /\ UNCHANGED volunteer_roles
                   ELSE /\ volunteer_roles' = volunteer_roles \cup
                               {[id |-> nextRowId, volunteer_id |-> v, role_id |-> r,
                                 attended |-> AttendedDefault]}
                        /\ req' = [req EXCEPT ![p] = Respond(req[p], 201)]
    /\ UNCHANGED <<events, roles, nextEventId, nextRoleId, constraints, held, now, page>>

\* Lines 231-243: the answer to the SELECT, then the INSERT.
SignupInsert(p) ==
    /\ req[p].op = "signup" /\ req[p].pc = "insert"
    /\ LET v == req[p].user.userId
           r == req[p].arg
       IN  IF req[p].hit
           THEN /\ req' = [req EXCEPT ![p] = Respond(req[p], 400)]
                /\ UNCHANGED <<volunteer_roles, nextRowId>>
           ELSE /\ nextRowId' = nextRowId + 1
                /\ IF InsertRejected(v, r)
                   THEN /\ req' = [req EXCEPT ![p] = Respond(req[p], 500)]
                        /\ UNCHANGED volunteer_roles
                   ELSE /\ volunteer_roles' = volunteer_roles \cup
                               {[id |-> nextRowId, volunteer_id |-> v, role_id |-> r,
                                 attended |-> AttendedDefault]}
                        /\ req' = [req EXCEPT ![p] = Respond(req[p], 201)]
    /\ UNCHANGED <<events, roles, nextEventId, nextRoleId, constraints, held, now, page>>

\* ---------------------------------------------- PATCH /api/attendance/:recordId
\* Lines 326-332: organizer_id of the event of the role of the record.
RecordOwners(id) ==
    {e.organizer_id : e \in {x \in events :
        \E a \in volunteer_roles, r \in roles :
            a.id = id /\ a.role_id = r.id /\ r.event_id = x.id}}

\* Mutant: the comparison with req.user.userId is dropped.
OwnsRecordAny(owners, userId) == owners # {}

\* Mutant: the rows.length === 0 test is dropped.
OwnsRecordNoEmptyCheck(owners, userId) == \A o \in owners : o = userId

\* Lines 334 and 299: the SELECT returned a row and its organizer_id is the
\* caller's userId.
OwnsRecord(owners, userId) == owners # {} /\ \A o \in owners : o = userId

\* Lines 321-336: the ownership SELECT and the 403 it may end in.
AttendanceCheck(p) ==
    /\ req[p].op = "setAttendance" /\ req[p].pc = "run"
    /\ \E recordId \in Ids(nextRowId), attended \in BOOLEAN :
          LET r == [req[p] EXCEPT !.arg = recordId, !.attended = attended]
          IN  req' = [req EXCEPT ![p] =
                         IF OwnsRecord(RecordOwners(recordId), req[p].user.userId)
                         THEN [r EXCEPT !.pc = "update"]
                         ELSE Respond(r, 403)]
    /\ UNCHANGED <<store, seqs, constraints, held, now, page>>

\* Mutant: the UPDATE flips the stored flag instead of writing the flag of the
\* request body.
AttendanceUpdateToggle(p) ==
    /\ req[p].op = "setAttendance" /\ req[p].pc = "update"
    /\ volunteer_roles' =
          {IF a.id = req[p].arg THEN [a EXCEPT !.attended = ~a.attended] ELSE a :
              a \in volunteer_roles}
    /\ req' = [req EXCEPT ![p] = Respond(req[p], 200)]
    /\ UNCHANGED <<events, roles, seqs, constraints, held, now, page>>

\* Lines 338-342: the UPDATE.
AttendanceUpdate(p) ==
    /\ req[p].op = "setAttendance" /\ req[p].pc = "update"
    /\ volunteer_roles' =
          {IF a.id = req[p].arg THEN [a EXCEPT !.attended = req[p].attended] ELSE a :
              a \in volunteer_roles}
    /\ req' = [req EXCEPT ![p] = Respond(req[p], 200)]
    /\ UNCHANGED <<events, roles, seqs, constraints, held, now, page>>

\* ------------------------------------------ GET /api/events/:eventId/volunteers
EventOwners(id) == {e.organizer_id : e \in {x \in events : x.id = id}}

\* Lines 303-310: the roster of an event, one row per volunteer_roles row.
Roster(id) ==
    {[record_id |-> a.id, volunteer |-> a.volunteer_id, attended |-> a.attended] :
        a \in {x \in volunteer_roles :
                  \E r \in roles : r.id = x.role_id /\ r.event_id = id}}

\* Lines 292-301.
RosterCheck(p) ==
    /\ req[p].op = "listAssignments" /\ req[p].pc = "run"
    /\ \E eventId \in Ids(nextEventId) :
          LET r == [req[p] EXCEPT !.arg = eventId]
          IN  req' = [req EXCEPT ![p] =
                         IF OwnsRecord(EventOwners(eventId), req[p].user.userId)
                         THEN [r EXCEPT !.pc = "list"]
                         ELSE Respond(r, 403)]
    /\ UNCHANGED <<store, seqs, constraints, held, now, page>>

\* Lines 303-312.
RosterList(p) ==
    /\ req[p].op = "listAssignments" /\ req[p].pc = "list"
    /\ req' = [req EXCEPT ![p] = RespondRows(req[p], 200, Roster(req[p].arg))]
    /\ UNCHANGED <<store, seqs, constraints, held, now, page>>

\* ------------------------------------------------------- POST /api/events
\* How a statement sent on the request's client can end: it runs, the server
\* answers with an error (the transaction is then aborted), or the connection
\* is lost.  On a lost connection nothing more runs on this client.
Outcomes(r) == IF r.broken THEN {"broken"} ELSE {"ok", "error", "broken"}

\* Lines 135-138: the kind check, then pool.connect().
CreateConnect(p) ==
    /\ req[p].op = "createEvent" /\ req[p].pc = "run"
    /\ IF req[p].user.userType # "org"
       THEN /\ req' = [req EXCEPT ![p] = Respond(req[p], 403)]
            /\ UNCHANGED held
       ELSE /\ \E rs \in RolesInputs, d \in Dates :
                  req' = [req EXCEPT ![p] =
                             [req[p] EXCEPT !.roles = rs, !.date = d,
                                            !.client = "held", !.pc = "begin"]]
            /\ held' = held + 1
    /\ UNCHANGED <<store, seqs, constraints, now, page>>

\* The throw of a failed await inside try: control goes to catch (line 160).
Thrown(r, o) == [r EXCEPT !.broken = (o = "broken"), !.pc = "rollback"]

\* Line 141.
TxBegin(p) ==
    /\ req[p].op = "createEvent" /\ req[p].pc = "begin"
    /\ \E o \in Outcomes(req[p]) :
          req' = [req EXCEPT ![p] =
                     IF o = "ok" THEN [req[p] EXCEPT !.pc = "insEvent"]
                     ELSE Thrown(req[p], o)]
    /\ UNCHANGED <<store, seqs, constraints, held, now, page>>

\* After the event row, or a role row, has been written: the loop of line 151
\* goes on while roles[] has elements left, then COMMIT.
AfterInsert(r, n) == IF n <= Len(r.roles) THEN "insRole" ELSE "commit"

\* Mutant: the INSERT goes through pool.query, outside the transaction of
\* this client, and is committed at once.
TxInsertEventPool(p) ==
    /\ req[p].op = "createEvent" /\ req[p].pc = "insEvent"
    /\ nextEventId' = nextEventId + 1
    /\ \E o \in Outcomes(req[p]) :
          IF o = "ok"
          THEN /\ events' = events \cup {[id |-> nextEventId,
                                          organizer_id |-> req[p].user.userId,
                                          date |-> req[p].date]}
               /\ req' = [req EXCEPT ![p] =
                             [req[p] EXCEPT
                                 !.txEvent = [id |-> nextEventId,
                                              organizer_id |-> req[p].user.userId,
                                              date |-> req[p].date],
                                 !.evId = nextEventId,
                                 !.next = 1,
                                 !.pc = AfterInsert(req[p], 1)]]
          ELSE /\ req' = [req EXCEPT ![p] =
                             [Thrown(req[p], o) EXCEPT !.failed = TRUE, !.evId = nextEventId]]
               /\ UNCHANGED events
    /\ UNCHANGED <<roles, volunteer_roles, nextRoleId, nextRowId, constraints, held, now, page>>

\* Lines 144-148.  The row is written in the transaction of this client.
TxInsertEvent(p) ==
    /\ req[p].op = "createEvent" /\ req[p].pc = "insEvent"
    /\ nextEventId' = nextEventId + 1
    /\ \E o \in Outcomes(req[p]) :
          req' = [req EXCEPT ![p] =
                     IF o = "ok"
                     THEN [req[p] EXCEPT
                              !.txEvent = [id |-> nextEventId,
                                           organizer_id |-> req[p].user.userId,
                                           date |-> req[p].date],
                              !.evId = nextEventId,
                              !.next = 1,
                              !.pc = AfterInsert(req[p], 1)]
                     ELSE [Thrown(req[p], o) EXCEPT !.failed = TRUE, !.evId = nextEventId]]
    /\ UNCHANGED <<store, nextRoleId, nextRowId, constraints, held, now, page>>

\* Mutant: the role INSERT goes through pool.query and is committed at once.
TxInsertRolePool(p) ==
    /\ req[p].op = "createEvent" /\ req[p].pc = "insRole"
    /\ nextRoleId' = nextRoleId + 1
    /\ \E o \in Outcomes(req[p]) :
          IF o = "ok"
          THEN /\ roles' = roles \cup
                      {[id |-> nextRoleId, event_id |-> req[p].txEvent.id,
                        required |-> req[p].roles[req[p].next].required]}
               /\ req' = [req EXCEPT ![p] =
                             [req[p] EXCEPT !.next = @ + 1,
                                            !.pc = AfterInsert(req[p], req[p].next + 1)]]
          ELSE /\ req' = [req EXCEPT ![p] = [Thrown(req[p], o) EXCEPT !.failed = TRUE]]
               /\ UNCHANGED roles
    /\ UNCHANGED <<events, volunteer_roles, nextEventId, nextRowId, constraints, held, now, page>>

\* Lines 151-156, one iteration.
TxInsertRole(p) ==
    /\ req[p].op = "createEvent" /\ req[p].pc = "insRole"
    /\ nextRoleId' = nextRoleId + 1
    /\ \E o \in Outcomes(req[p]) :
          req' = [req EXCEPT ![p] =
                     IF o = "ok"
                     THEN [req[p] EXCEPT
                              !.txRoles = @ \cup
                                  {[id |-> nextRoleId, event_id |-> req[p].txEvent.id,
                                    required |-> req[p].roles[req[p].next].required]},
                              !.next = @ + 1,
                              !.pc = AfterInsert(req[p], req[p].next + 1)]
                     ELSE [Thrown(req[p], o) EXCEPT !.failed = TRUE]]
    /\ UNCHANGED <<store, nextEventId, nextRowId, constraints, held, now, page>>

\* Lines 158-159.  COMMIT makes the rows of the transaction visible at once.
TxCommit(p) ==
    /\ req[p].op = "createEvent" /\ req[p].pc = "commit"
    /\ \E o \in Outcomes(req[p]) :
          IF o = "ok"
          THEN /\ events' = events \cup {req[p].txEvent}
               /\ roles' = roles \cup req[p].txRoles
               /\ req' = [req EXCEPT ![p] =
                             [req[p] EXCEPT !.txEvent = NoEvent, !.txRoles = {},
                                            !.resp = 201, !.pc = "release"]]
          ELSE /\ req' = [req EXCEPT ![p] = Thrown(req[p], o)]
               /\ UNCHANGED <<events, roles>>
    /\ UNCHANGED <<volunteer_roles, seqs, constraints, held, now, page>>

\* What becomes of a request whose handler throws without having answered:
\* the promise of the async handler rejects, and the router either does not
\* look at it, so that the request stays unanswered (resp 0), or passes the
\* error to its error handler, which answers 500.  Which of the two depends
\* on the version of express the server is run with.
Unanswered == {0, 500}

\* Lines 160-163.  The rows of the transaction are gone either way: ROLLBACK
\* drops them, and the server aborts the transaction of a lost connection.  A
\* ROLLBACK that fails throws out of catch, past line 163.
TxRollback(p) ==
    /\ req[p].op = "createEvent" /\ req[p].pc = "rollback"
    /\ \E o \in Outcomes(req[p]) \ {"error"} :
          \E code \in IF o = "ok" THEN {500} ELSE Unanswered :
              req' = [req EXCEPT ![p] =
                         [req[p] EXCEPT !.txEvent = NoEvent, !.txRoles = {},
                                        !.broken = (o = "broken"),
                                        !.resp = code,
                                        !.pc = "release"]]
    /\ UNCHANGED <<store, seqs, constraints, held, now, page>>

\* Lines 164-166: finally.  A request that was not answered by now stays
\* unanswered.
Release(p) ==
    /\ req[p].op = "createEvent" /\ req[p].pc = "release"
    /\ held' = held - 1
    /\ req' = [req EXCEPT ![p] =
                  [req[p] EXCEPT !.client = "released",
                                 !.pc = IF req[p].resp = 0 THEN "dropped" ELSE "done"]]
    /\ UNCHANGED <<store, seqs, constraints, now, page>>

\* --------------------------------------------------- GET /api/events/:id
\* Lines 191-196.
GetEventSelect(p) ==
    /\ req[p].op = "getEvent" /\ req[p].pc = "run"
    /\ \E id \in Ids(nextEventId) :
          req' = [req EXCEPT ![p] =
                     [req[p] EXCEPT
                         !.arg = id,
                         !.found = IF \E e \in events : e.id = id
                                   THEN CHOOSE e \in events : e.id = id
                                   ELSE NoEvent,
                         !.pc = "roles"]]
    /\ UNCHANGED <<store, seqs, constraints, held, now, page>>

\* Mutant: the count shown for a role stops at its required_volunteers.
RolesOfCapped(id) ==
    {[id |-> r.id, required |-> r.required,
      current_volunteers |->
          LET n == Cardinality({a \in volunteer_roles : a.role_id = r.id})
          IN  IF n > r.required THEN r.required ELSE n] :
        r \in {x \in roles : x.event_id = id}}

\* Lines 198-201: the roles of an event with their claim counts.
RolesOf(id) ==
    {[id |-> r.id, required |-> r.required,
      current_volunteers |-> Cardinality({a \in volunteer_roles : a.role_id = r.id})] :
        r \in {x \in roles : x.event_id = id}}

\* Lines 197-211.
GetEventRoles(p) ==
    /\ req[p].op = "getEvent" /\ req[p].pc = "roles"
    /\ req' = [req EXCEPT ![p] =
                  IF req[p].found = NoEvent
                  THEN RespondRows(req[p], 404, {})
                  ELSE RespondRows(req[p], 200, RolesOf(req[p].arg))]
    /\ UNCHANGED <<store, seqs, constraints, held, now, page>>

\* ------------------------------------------------------------- the clock
\* Mutant: the comparison of the upcoming queries is not strict.
IsUpcomingInclusive(date, t) == date >= t

\* WHERE e.date > NOW() (lines 177, 257) and WHERE e.date <= NOW() (line 267),
\* for a statement that reads the instant t from NOW().
IsUpcoming(date, t) == date > t
IsPast(date, t) == date <= t

\* ORDER BY e.date ASC over a set of rows: every sequence that lists each row
\* once with dates that never decrease (rows of equal date come in any order).
RECURSIVE AscendingByDate(_)
AscendingByDate(S) ==
    IF S = {} THEN {<<>>}
    ELSE UNION {{<<x>> \o t : t \in AscendingByDate(S \ {x})} :
                    x \in {y \in S : \A z \in S : y.date <= z.date}}

\* ORDER BY e.date DESC.
RECURSIVE DescendingByDate(_)
DescendingByDate(S) ==
    IF S = {} THEN {<<>>}
    ELSE UNION {{<<x>> \o t : t \in DescendingByDate(S \ {x})} :
                    x \in {y \in S : \A z \in S : y.date >= z.date}}

Range(s) == {s[i] : i \in DOMAIN s}

\* Time passes.
Tick ==
    /\ now + 1 \in Clock
    /\ now' = now + 1
    /\ UNCHANGED <<store, seqs, constraints, held, req, page>>

\* ----------------------------------------------------------- GET /api/events
\* Lines 172-179: the events later than t, each with the number of its roles.
\* Every organizer_id is the id of an organization, so the JOIN drops nothing.
UpcomingEvents(t) ==
    {[id |-> e.id, organizer_id |-> e.organizer_id, date |-> e.date,
      role_count |-> Cardinality({r \in roles : r.event_id = e.id})] :
        e \in {x \in events : IsUpcoming(x.date, t)}}

\* Lines 171-181.
ListUpcoming(p) ==
    /\ req[p].op = "listUpcoming" /\ req[p].pc = "run"
    /\ \E s \in AscendingByDate(UpcomingEvents(now)) :
          req' = [req EXCEPT ![p] = [Respond(req[p], 200) EXCEPT !.upcoming = s]]
    /\ UNCHANGED <<store, seqs, constraints, held, now, page>>

\* ------------------------------------------------- GET /api/volunteer/profile
\* The join of lines 253-256 and 263-266 for volunteer v: one row per
\* volunteer_roles row of v whose role and event exist.  record_id stands for
\* the identity of the row in the result set; the SELECT list has no such
\* column.
Assignments(v) ==
    {[record_id |-> t[3].id, event_id |-> t[1].id, date |-> t[1].date,
      role_id |-> t[2].id, attended |-> t[3].attended] :
        t \in {u \in events \X roles \X volunteer_roles :
                  /\ u[2].event_id = u[1].id
                  /\ u[3].role_id = u[2].id
                  /\ u[3].volunteer_id = v}}

\* Lines 252-259 and 262-269, for a statement reading the instant t.
UpcomingOf(v, t) == {a \in Assignments(v) : IsUpcoming(a.date, t)}
PastOf(v, t) == {a \in Assignments(v) : IsPast(a.date, t)}

\* Mutant: the filter on attended is dropped.
TotalEventsListed(past) == Len(past)

\* Line 271.
TotalEventsAttended(past) == Cardinality({i \in DOMAIN past : past[i].attended})

\* Line 272.
HoursPerEvent == 3

\* Mutant: one hour is credited for each event attended.
TotalHoursOnePerEvent(n) == n

TotalHours(n) == n * HoursPerEvent

\* Lines 248-259: the kind check, then the first query.
ProfileUpcoming(p) ==
    /\ req[p].op = "profile" /\ req[p].pc = "run"
    /\ IF req[p].user.userType # "volunteer"
       THEN req' = [req EXCEPT ![p] = Respond(req[p], 403)]
       ELSE \E s \in AscendingByDate(UpcomingOf(req[p].user.userId, now)) :
               req' = [req EXCEPT ![p] = [req[p] EXCEPT !.upcoming = s, !.pc = "past"]]
    /\ UNCHANGED <<store, seqs, constraints, held, now, page>>

\* Lines 262-281: the second query, the statistics and the answer.
ProfilePast(p) ==
    /\ req[p].op = "profile" /\ req[p].pc = "past"
    /\ \E s \in DescendingByDate(PastOf(req[p].user.userId, now)) :
          req' = [req EXCEPT ![p] =
                     [Respond(req[p], 200) EXCEPT
                         !.past = s,
                         !.totalEvents = TotalEventsAttended(s),
                         !.totalHours = TotalHours(TotalEventsAttended(s))]]
    /\ UNCHANGED <<store, seqs, constraints, held, now, page>>

\* ===================================================== the page (AuthProvider)
\* src/unnamed/part_000.  JavaScript runs one piece of code at a time: the
\* effect, the part of login() before its await, the part after it, and
\* logout() each run from start to end before anything else of the page
\* runs.  Each of their statements is a step of its own; `running` says
\* which piece is on the stack and at which line, and nothing else of the
\* page starts until it is "none".
NullUser == [id |-> 0, type |-> "none"]
NullToken == [payload |-> NoUser, serial |-> 0]

\* response.data.user with the type added (lines 30, 32) for the account
\* with jwt payload u.
UserOf(u) == [id |-> u.userId, type |-> u.userType]

\* What a call of login() submits: the e-mail, password and userType of an
\* account (written as its payload), or credentials of no account.
Credentials == Payloads \cup {NoUser}

Calls == 1..NumCalls
NoCall == [pc |-> "idle", credentials |-> NoUser, token |-> NullToken]
Stack == [who |-> "none", call |-> 0, line |-> 0]
Quiet == running.who = "none"

\* localStorage as an earlier visit can have left it: empty after logout(),
\* or with the token and the user a login() stored.
LeftBehind ==
    {[token |-> NullToken, user |-> NullUser]}
        \cup {[token |-> [payload |-> u, serial |-> 0], user |-> UserOf(u)] : u \in Payloads}

\* No page is open.
NoPage ==
    /\ currentUser = NullUser
    /\ loading = TRUE
    /\ localStorage = [token |-> NullToken, user |-> NullUser]
    /\ authorization = NullToken
    /\ calls = [c \in Calls |-> NoCall]
    /\ running = Stack
    /\ issued = 0

\* Lines 14-18: the effect reads both items and, if both are there, calls
\* setCurrentUser.
MountRead ==
    /\ loading /\ Quiet
    /\ IF localStorage.token # NullToken /\ localStorage.user # NullUser
       THEN /\ currentUser' = localStorage.user
            /\ running' = [who |-> "mount", call |-> 0, line |-> 19]
       ELSE /\ running' = [who |-> "mount", call |-> 0, line |-> 21]
            /\ UNCHANGED currentUser
    /\ UNCHANGED <<server, loading, localStorage, authorization, calls, issued>>

\* Line 19.
MountHeader ==
    /\ running.who = "mount" /\ running.line = 19
    /\ authorization' = localStorage.token
    /\ running' = [running EXCEPT !.line = 21]
    /\ UNCHANGED <<server, currentUser, loading, localStorage, calls, issued>>

\* Line 21.
MountDone ==
    /\ running.who = "mount" /\ running.line = 21
    /\ loading' = FALSE
    /\ running' = Stack
    /\ UNCHANGED <<server, currentUser, localStorage, authorization, calls, issued>>

\* Lines 24-26: login() is called by a child, which is rendered once loading
\* is false (line 55), and runs up to its await.
Login(c) ==
    /\ ~loading /\ Quiet
    /\ calls[c].pc = "idle"
    /\ \E u \in Credentials :
          calls' = [calls EXCEPT ![c] = [NoCall EXCEPT !.pc = "flying", !.credentials = u]]
    /\ UNCHANGED <<server, currentUser, loading, localStorage, authorization, running, issued>>

\* Lines 26-29: POST /api/login answered with a user and a token (App.js lines
\* 118-124, for credentials of an account); the code after the await starts
\* and stores the token.
LoginResolve(c) ==
    /\ Quiet
    /\ calls[c].pc = "flying" /\ calls[c].credentials # NoUser
    /\ issued' = issued + 1
    /\ LET token == [payload |-> calls[c].credentials, serial |-> issued + 1]
       IN  /\ calls' = [calls EXCEPT ![c].token = token, ![c].pc = "resolved"]
           /\ localStorage' = [localStorage EXCEPT !.token = token]
    /\ running' = [who |-> "login", call |-> c, line |-> 30]
    /\ UNCHANGED <<server, currentUser, loading, authorization>>

\* Line 30.
LoginStoreUser(c) ==
    /\ running = [who |-> "login", call |-> c, line |-> 30]
    /\ localStorage' = [localStorage EXCEPT !.user = UserOf(calls[c].credentials)]
    /\ running' = [running EXCEPT !.line = 31]
    /\ UNCHANGED <<server, currentUser, loading, authorization, calls, issued>>

\* Line 31.
LoginHeader(c) ==
    /\ running = [who |-> "login", call |-> c, line |-> 31]
    /\ authorization' = calls[c].token
    /\ running' = [running EXCEPT !.line = 32]
    /\ UNCHANGED <<server, currentUser, loading, localStorage, calls, issued>>

\* Lines 32-34.
LoginSetCurrentUser(c) ==
    /\ running = [who |-> "login", call |-> c, line |-> 32]
    /\ currentUser' = UserOf(calls[c].credentials)
    /\ calls' = [calls EXCEPT ![c].pc = "done"]
    /\ running' = Stack
    /\ UNCHANGED <<server, loading, localStorage, authorization, issued>>

\* Lines 35-37: the request failed (the credentials were refused, App.js line
\* 119, the server answered 500, or no answer came) and the catch returns.
LoginReject(c) ==
    /\ Quiet
    /\ calls[c].pc = "flying"
    /\ calls' = [calls EXCEPT ![c].pc = "failed"]
    /\ UNCHANGED <<server, currentUser, loading, localStorage, authorization, running, issued>>

\* Line 41: logout() is called and removes the token.
LogoutToken ==
    /\ ~loading /\ Quiet
    /\ localStorage' = [localStorage EXCEPT !.token = NullToken]
    /\ running' = [who |-> "logout", call |-> 0, line |-> 42]
    /\ UNCHANGED <<server, currentUser, loading, authorization, calls, issued>>

\* Line 42.
LogoutUser ==
    /\ running.who = "logout" /\ running.line = 42
    /\ localStorage' = [localStorage EXCEPT !.user = NullUser]
    /\ running' = [running EXCEPT !.line = 43]
    /\ UNCHANGED <<server, currentUser, loading, authorization, calls, issued>>

\* Line 43.
LogoutCurrentUser ==
    /\ running.who = "logout" /\ running.line = 43
    /\ currentUser' = NullUser
    /\ running' = [running EXCEPT !.line = 44]
    /\ UNCHANGED <<server, loading, localStorage, authorization, calls, issued>>

\* Mutant: the header is left in place.
LogoutHeaderKept ==
    /\ running.who = "logout" /\ running.line = 44
    /\ running' = Stack
    /\ UNCHANGED <<server, currentUser, loading, localStorage, authorization, calls, issued>>

\* Line 44.
LogoutHeader ==
    /\ running.who = "logout" /\ running.line = 44
    /\ authorization' = NullToken
    /\ running' = Stack
    /\ UNCHANGED <<server, currentUser, loading, localStorage, calls, issued>>

\* ------------------------------------------------------------ the system
TypeOK ==
    /\ nextEventId \in 1..(NumProcs + 2)
    /\ nextRowId \in 1..(NumProcs + 2)
    /\ held \in 0..NumProcs
    /\ constraints \in Schemas
    /\ \A p \in Procs : req[p].resp \in {0, 200, 201, 400, 401, 403, 404, 500}

\* createEvent requests that have arrived and are not finished.
InFlight == {q \in Procs : req[q].op = "createEvent" /\ req[q].pc \notin {"done", "dropped"}}

StartCreateEvent(p) ==
    /\ Cardinality(InFlight) < MaxTx
    /\ \E h \in Headers : Begin(p, "createEvent", h)

StartGetEvent(p) == Begin(p, "getEvent", Headers0)

StartSignup(p) == \E h \in Headers : Begin(p, "signup", h)

StartSetAttendance(p) == \E h \in Headers : Begin(p, "setAttendance", h)

StartListAssignments(p) == \E h \in Headers : Begin(p, "listAssignments", h)

StartListUpcoming(p) == Begin(p, "listUpcoming", Headers0)

StartProfile(p) == \E h \in Headers : Begin(p, "profile", h)

\* The store of a fresh deployment.
Init ==
    /\ events = {}
    /\ roles = {}
    /\ volunteer_roles = {}
    /\ nextEventId = 1
    /\ nextRoleId = 1
    /\ nextRowId = 1
    /\ constraints \in Schemas
    /\ held = 0
    /\ now = 0
    /\ NoPage
    /\ req = [p \in Procs |-> Idle]

\* Event creation and the readers of events.
NextEvents ==
    \E p \in Procs :
        \/ StartCreateEvent(p)
        \/ StartGetEvent(p)
        \/ AuthenticateToken(p)
        \/ CreateConnect(p)
        \/ TxBegin(p)
        \/ TxInsertEvent(p)
        \/ TxInsertRole(p)
        \/ TxCommit(p)
        \/ TxRollback(p)
        \/ Release(p)
        \/ GetEventSelect(p)
        \/ GetEventRoles(p)

\* The constraints of volunteer_roles play no part in these routes.
InitEvents == Init /\ constraints = {}

Spec == InitEvents /\ [][NextEvents]_vars

\* The store after organization 1 has created one event with one role:
\* what POST /api/events leaves behind on its 201 path.
InitSeeded ==
    /\ events = {[id |-> 1, organizer_id |-> 1, date |-> 1]}
    /\ roles = {[id |-> 1, event_id |-> 1, required |-> 2]}
    /\ volunteer_roles = {}
    /\ nextEventId = 2
    /\ nextRoleId = 2
    /\ nextRowId = 1
    /\ constraints \in Schemas
    /\ held = 0
    /\ now = 0
    /\ NoPage
    /\ req = [p \in Procs |-> Idle]

\* Signup requests on an existing event.
NextSignup ==
    \E p \in Procs :
        \/ StartSignup(p)
        \/ AuthenticateToken(p)
        \/ SignupSelect(p)
        \/ SignupInsert(p)

SpecSignup == InitSeeded /\ [][NextSignup]_vars

\* The store after volunteer 1 has then signed up for that role.
InitRoster ==
    /\ events = {[id |-> 1, organizer_id |-> 1, date |-> 1]}
    /\ roles = {[id |-> 1, event_id |-> 1, required |-> 2]}
    /\ volunteer_roles = {[id |-> 1, volunteer_id |-> 1, role_id |-> 1, attended |-> FALSE]}
    /\ nextEventId = 2
    /\ nextRoleId = 2
    /\ nextRowId = 2
    /\ constraints \in Schemas
    /\ held = 0
    /\ now = 0
    /\ NoPage
    /\ req = [p \in Procs |-> Idle]

\* Attendance and roster requests on an event that has a roster.  Nothing
\* is inserted into volunteer_roles, so its constraints play no part.
NextRoster ==
    \E p \in Procs :
        \/ StartSetAttendance(p)
        \/ StartListAssignments(p)
        \/ AuthenticateToken(p)
        \/ AttendanceCheck(p)
        \/ AttendanceUpdate(p)
        \/ RosterCheck(p)
        \/ RosterList(p)

InitAttendance == InitRoster /\ constraints = {}

SpecRoster == InitAttendance /\ [][NextRoster]_vars

\* Every route behind authenticateToken.
NextAuth ==
    \E p \in Procs :
        \/ StartCreateEvent(p)
        \/ StartSignup(p)
        \/ StartSetAttendance(p)
        \/ StartListAssignments(p)
        \/ AuthenticateToken(p)
        \/ CreateConnect(p)
        \/ TxBegin(p)
        \/ TxInsertEvent(p)
        \/ TxInsertRole(p)
        \/ TxCommit(p)
        \/ TxRollback(p)
        \/ Release(p)
        \/ SignupSelect(p)
        \/ SignupInsert(p)
        \/ AttendanceCheck(p)
        \/ AttendanceUpdate(p)
        \/ RosterCheck(p)
        \/ RosterList(p)
        \/ StartProfile(p)
        \/ ProfileUpcoming(p)
        \/ ProfilePast(p)

\* What authenticateToken does is the same under every table definition.
SpecAuth == InitAttendance /\ [][NextAuth]_vars

\* The store after organization 1 has created two events of one role each,
\* for the instants 1 and 2, volunteer 1 has signed up for both roles and
\* volunteer 2 for the first, and organization 1 has recorded volunteer 1 as
\* attending the first.
InitProfile ==
    /\ events = {[id |-> 1, organizer_id |-> 1, date |-> 1],
                 [id |-> 2, organizer_id |-> 1, date |-> 2]}
    /\ roles = {[id |-> 1, event_id |-> 1, required |-> 2],
                [id |-> 2, event_id |-> 2, required |-> 2]}
    /\ volunteer_roles =
          {[id |-> 1, volunteer_id |-> 1, role_id |-> 1, attended |-> TRUE],
           [id |-> 2, volunteer_id |-> 1, role_id |-> 2, attended |-> FALSE],
           [id |-> 3, volunteer_id |-> 2, role_id |-> 1, attended |-> FALSE]}
    /\ nextEventId = 3
    /\ nextRoleId = 3
    /\ nextRowId = 4
    /\ constraints = {}
    /\ held = 0
    /\ now = 0
    /\ NoPage
    /\ req = [p \in Procs |-> Idle]

\* The readers of the clock, with attendance being recorded and time passing
\* while they run.
NextProfile ==
    \/ Tick
    \/ \E p \in Procs :
          \/ StartProfile(p)
          \/ StartListUpcoming(p)
          \/ StartSetAttendance(p)
          \/ AuthenticateToken(p)
          \/ ProfileUpcoming(p)
          \/ ProfilePast(p)
          \/ ListUpcoming(p)
          \/ AttendanceCheck(p)
          \/ AttendanceUpdate(p)

SpecProfile == InitProfile /\ [][NextProfile]_vars

\* The store after volunteers 1 and 2 have signed up for the role of the
\* seeded event, which asks for two volunteers.
InitFull ==
    /\ events = {[id |-> 1, organizer_id |-> 1, date |-> 1]}
    /\ roles = {[id |-> 1, event_id |-> 1, required |-> 2]}
    /\ volunteer_roles =
          {[id |-> 1, volunteer_id |-> 1, role_id |-> 1, attended |-> FALSE],
           [id |-> 2, volunteer_id |-> 2, role_id |-> 1, attended |-> FALSE]}
    /\ nextEventId = 2
    /\ nextRoleId = 2
    /\ nextRowId = 3
    /\ constraints \in Schemas
    /\ held = 0
    /\ now = 0
    /\ NoPage
    /\ req = [p \in Procs |-> Idle]

\* Signups on a role that has its volunteers, and readers of its count.
NextCounts ==
    \E p \in Procs :
        \/ StartSignup(p)
        \/ StartGetEvent(p)
        \/ AuthenticateToken(p)
        \/ SignupSelect(p)
        \/ SignupInsert(p)
        \/ GetEventSelect(p)
        \/ GetEventRoles(p)

SpecCounts == InitFull /\ [][NextCounts]_vars

\* ------------------------------------------------------------ a session
\* Organization 1 and volunteer 1 use the service one request after the
\* other: the organization creates an event and looks at it, the volunteer
\* signs up and reads the profile, the organization records attendance, the
\* volunteer reads the profile again.  What each request names and carries is
\* chosen in its handler, and the clock runs as it will.
Steps == 1..6

TokenOf(u) == [kind |-> "valid", payload |-> u]
Organizer == [userId |-> 1, userType |-> "org"]
Volunteer == [userId |-> 1, userType |-> "volunteer"]

\* Request i is sent when request i - 1 is over.
Turn(i) == IF i = 1 THEN TRUE ELSE req[i - 1].pc \in {"done", "dropped"}

SendCreateEvent == Turn(1) /\ Begin(1, "createEvent", TokenOf(Organizer))
SendGetEvent == Turn(2) /\ Begin(2, "getEvent", Headers0)
SendSignup == Turn(3) /\ Begin(3, "signup", TokenOf(Volunteer))
SendProfile == Turn(4) /\ Begin(4, "profile", TokenOf(Volunteer))
SendSetAttendance == Turn(5) /\ Begin(5, "setAttendance", TokenOf(Organizer))
SendProfileAgain == Turn(6) /\ Begin(6, "profile", TokenOf(Volunteer))

InitSession ==
    /\ events = {}
    /\ roles = {}
    /\ volunteer_roles = {}
    /\ nextEventId = 1
    /\ nextRoleId = 1
    /\ nextRowId = 1
    /\ constraints \in Schemas
    /\ held = 0
    /\ now = 0
    /\ NoPage
    /\ req = [p \in Steps |-> Idle]

NextSession ==
    \/ Tick
    \/ SendCreateEvent
    \/ SendGetEvent
    \/ SendSignup
    \/ SendProfile
    \/ SendSetAttendance
    \/ SendProfileAgain
    \/ \E p \in Steps :
          \/ AuthenticateToken(p)
          \/ CreateConnect(p)
          \/ TxBegin(p)
          \/ TxInsertEvent(p)
          \/ TxInsertRole(p)
          \/ TxCommit(p)
          \/ TxRollback(p)
          \/ Release(p)
          \/ GetEventSelect(p)
          \/ GetEventRoles(p)
          \/ SignupSelect(p)
          \/ SignupInsert(p)
          \/ ProfileUpcoming(p)
          \/ ProfilePast(p)
          \/ AttendanceCheck(p)
          \/ AttendanceUpdate(p)

SpecSession == InitSession /\ [][NextSession]_vars

\* A page is opened in a browser that may hold the session of an earlier
\* visit.  The server is left out: what it answers to POST /api/login is
\* chosen in LoginResolve and LoginReject.
InitPage ==
    /\ events = {}
    /\ roles = {}
    /\ volunteer_roles = {}
    /\ nextEventId = 1
    /\ nextRoleId = 1
    /\ nextRowId = 1
    /\ constraints = {}
    /\ held = 0
    /\ now = 0
    /\ req = [p \in Procs |-> Idle]
    /\ currentUser = NullUser
    /\ loading = TRUE
    /\ localStorage \in LeftBehind
    /\ authorization = NullToken
    /\ calls = [c \in Calls |-> NoCall]
    /\ running = Stack
    /\ issued = 0

NextPage ==
    \/ MountRead
    \/ MountHeader
    \/ MountDone
    \/ LogoutToken
    \/ LogoutUser
    \/ LogoutCurrentUser
    \/ LogoutHeader
    \/ \E c \in Calls :
          \/ Login(c)
          \/ LoginResolve(c)
          \/ LoginStoreUser(c)
          \/ LoginHeader(c)
          \/ LoginSetCurrentUser(c)
          \/ LoginReject(c)

SpecPage == InitPage /\ [][NextPage]_vars

\* ================================================================ claims
\* The request of process p was changed by the step: p took the step.
Stepped(p) == req'[p] # req[p]

AllDone == \A p \in Procs : req[p].pc \in {"done", "dropped"}

\* C1: the store holds at most one volunteer_roles row for each
\* (volunteerId, roleId) pair, under any interleaving of signup requests.
C1_AtMostOneAssignment ==
    \A v \in VolIds, r \in Ids(nextRoleId) : Cardinality(Signups(v, r)) <= 1

\* Answered signup requests of volunteer v for role r.
SignupsAnswered(v, r) ==
    {p \in Procs : /\ req[p].op = "signup" /\ req[p].pc = "done"
                   /\ req[p].user = [userId |-> v, userType |-> "volunteer"]
                   /\ req[p].arg = r}

\* C2: when all the concurrent signup requests for a pair with an existing
\* role and no prior assignment have completed, exactly one of them was
\* answered 201 and every other one 400.
C2_OneSuccessRestConflict ==
    AllDone =>
        \A v \in VolIds, r \in Ids(nextRoleId) :
            (RoleExists(r) /\ SignupsAnswered(v, r) # {}) =>
                /\ Cardinality({p \in SignupsAnswered(v, r) : req[p].resp = 201}) = 1
                /\ \A p \in SignupsAnswered(v, r) : req[p].resp \in {201, 400}

\* C9: a volunteer's signup for a role id that names no role is answered 404
\* and creates no volunteer_roles row.
C9_SignupUnknownRoleNotFound ==
    \A p \in Procs :
        (/\ req[p].op = "signup" /\ req[p].pc = "done"
         /\ req[p].user.userType = "volunteer"
         /\ ~RoleExists(req[p].arg)) =>
            /\ req[p].resp = 404
            /\ \A a \in volunteer_roles : a.role_id # req[p].arg

\* Rows of a set ordered by id, as the sequence of their required_volunteers.
RECURSIVE RequiredById(_)
RequiredById(S) ==
    IF S = {} THEN <<>>
    ELSE LET m == CHOOSE x \in S : \A y \in S : x.id <= y.id
         IN  <<m.required>> \o RequiredById(S \ {m})

\* The role rows rs are the roles[] of the createEvent request that made
\* event id, one row per element, in order.
RolesAsSupplied(id, rs) ==
    \E q \in Procs :
        /\ req[q].op = "createEvent" /\ req[q].evId = id
        /\ RequiredById(rs) = [i \in 1..Len(req[q].roles) |-> req[q].roles[i].required]

C8_ValidationRejects ==
    \A p \in Procs :
        (/\ req[p].op = "createEvent" /\ req[p].pc = "done"
         /\ req[p].client # "none"
         /\ \/ req[p].roles = <<>>
            \/ \E i \in 1..Len(req[p].roles) : req[p].roles[i].required < 0) =>
            /\ req[p].resp # 201
            /\ \A e \in events : e.id # req[p].evId

\* The target a setAttendance or listAssignments request names belongs to an
\* event of another account id than the caller's.
ForeignTarget(r) ==
    IF r.op = "setAttendance"
    THEN RecordOwners(r.arg) # {} /\ r.user.userId \notin RecordOwners(r.arg)
    ELSE EventOwners(r.arg) # {} /\ r.user.userId \notin EventOwners(r.arg)

\* C5: the step in which setAttendance or listAssignmentsForEvent of an
\* authenticated caller looks up a target whose event has another
\* organizer_id answers 403, returns no rows and leaves volunteer_roles as it
\* was; such a request never reaches its UPDATE or its roster query.
C5_Ownership ==
    [][\A p \in Procs :
          (/\ Stepped(p)
           /\ req[p].op \in {"setAttendance", "listAssignments"}
           /\ req[p].pc = "run"
           /\ ForeignTarget(req'[p])) =>
              /\ req'[p].pc = "done" /\ req'[p].resp = 403 /\ req'[p].rows = {}
              /\ volunteer_roles' = volunteer_roles]_vars

\* Organization 2 was refused the attendance record and the roster of the
\* event of organization 1.
C5_Witness ==
    \E p, q \in Procs :
        /\ req[p].op = "setAttendance" /\ req[p].pc = "done" /\ req[p].resp = 403
        /\ req[p].user = [userId |-> 2, userType |-> "org"] /\ req[p].arg = 1
        /\ req[q].op = "listAssignments" /\ req[q].pc = "done" /\ req[q].resp = 403
        /\ req[q].user = [userId |-> 2, userType |-> "org"] /\ req[q].arg = 1

OrgOnly == {"createEvent", "listAssignments", "setAttendance"}

\* C6: an answered request of a caller whose account kind is not the one the
\* operation is restricted to was answered 403.
C6_KindEnforced ==
    \A p \in Procs :
        (/\ req[p].pc = "done"
         /\ \/ req[p].op \in OrgOnly /\ req[p].user.userType = "volunteer"
            \/ req[p].op = "signup" /\ req[p].user.userType = "org") =>
            req[p].resp = 403

\* C7: authenticateToken answers 401 to a request without a token and 403 to
\* one whose token does not verify, changing nothing in the store; a handler
\* runs only with req.user set to the payload of a verified token.
C7_Authenticate ==
    /\ [][\A p \in Procs :
             (Stepped(p) /\ req[p].pc = "auth") =>
                 /\ UNCHANGED <<store, seqs, held>>
                 /\ req[p].hdr.kind \in {"absent", "notoken"} =>
                        req'[p].pc = "done" /\ req'[p].resp = 401
                 /\ req[p].hdr.kind = "invalid" =>
                        req'[p].pc = "done" /\ req'[p].resp = 403
                 /\ req[p].hdr.kind = "valid" =>
                        req'[p].pc = "run" /\ req'[p].user = req[p].hdr.payload]_vars
    /\ [](\A p \in Procs :
             (req[p].op \in AuthOps /\ req[p].pc \notin {"auth", "done"}) =>
                 req[p].hdr.kind = "valid" /\ req[p].user = req[p].hdr.payload)

\* One request was turned away without a token and one with a bad token.
C7_Witness ==
    \E p, q \in Procs :
        /\ req[p].hdr.kind = "absent" /\ req[p].pc = "done" /\ req[p].resp = 401
        /\ req[q].hdr.kind = "invalid" /\ req[q].pc = "done" /\ req[q].resp = 403
        /\ req[q].op = "setAttendance"

C11_Idempotent ==
    [][\A p \in Procs :
          (Stepped(p) /\ req[p].op = "setAttendance" /\ req[p].pc = "update") =>
              /\ req'[p].pc = "done" /\ req'[p].resp = 200
              /\ volunteer_roles' =
                    {IF a.id = req[p].arg THEN [a EXCEPT !.attended = req[p].attended]
                     ELSE a : a \in volunteer_roles}
              /\ (\A a \in volunteer_roles : a.id = req[p].arg => a.attended = req[p].attended)
                    => store' = store]_vars

\* Organization 1 has set record 1 to attended twice, and both calls were
\* answered 200.
C11_Witness ==
    \E p, q \in Procs :
        /\ p # q
        /\ \A x \in {p, q} :
              /\ req[x].op = "setAttendance" /\ req[x].pc = "done" /\ req[x].resp = 200
              /\ req[x].user = [userId |-> 1, userType |-> "org"]
              /\ req[x].arg = 1 /\ req[x].attended
        /\ \A a \in volunteer_roles : a.id = 1 => a.attended

\* C12: a query that runs at the very instant of an event's date treats the
\* event as past: the listing of upcoming events and the upcoming query of a
\* profile leave it out, and the past query of a profile returns every
\* assignment the volunteer holds under it.
C12_EqualNowIsPast ==
    [][\A p \in Procs :
          Stepped(p) =>
              /\ (req[p].op = "listUpcoming" /\ req[p].pc = "run") =>
                    \A e \in events :
                        e.date = now => \A x \in Range(req'[p].upcoming) : x.id # e.id
              /\ (req[p].op = "profile" /\ req[p].pc = "run") =>
                    \A a \in Assignments(req[p].user.userId) :
                        a.date = now => a \notin Range(req'[p].upcoming)
              /\ (req[p].op = "profile" /\ req[p].pc = "past") =>
                    \A a \in Assignments(req[p].user.userId) :
                        a.date = now => a \in Range(req'[p].past)]_vars

\* At the instant of event 1 a profile listed it under past and not under
\* upcoming, and a listing of upcoming events left it out.
C12_Witness ==
    \E p, q \in Procs :
        /\ now = 1
        /\ req[p].op = "profile" /\ req[p].pc = "done" /\ req[p].resp = 200
        /\ \E x \in Range(req[p].past) : x.event_id = 1
        /\ \A x \in Range(req[p].upcoming) : x.event_id # 1
        /\ req[q].op = "listUpcoming" /\ req[q].pc = "done"
        /\ \A x \in Range(req[q].upcoming) : x.id # 1

\* C13: the answer of a volunteer's profile carries as totalEvents the number
\* of volunteer_roles rows of that volunteer with attended set whose event's
\* date is not later than the instant of the past query, and as totalHours
\* three times that number; rows under later events count for nothing.
C13_Stats ==
    [][\A p \in Procs :
          (Stepped(p) /\ req[p].op = "profile" /\ req[p].pc = "past") =>
              /\ req'[p].resp = 200
              /\ req'[p].totalEvents =
                    Cardinality({a \in volunteer_roles :
                        /\ a.volunteer_id = req[p].user.userId
                        /\ a.attended
                        /\ \E r \in roles, e \in events :
                              r.id = a.role_id /\ e.id = r.event_id /\ e.date <= now})
              /\ req'[p].totalHours = req'[p].totalEvents * 3]_vars

\* Volunteer 1, recorded as attending both events, asked for the profile
\* between them: one event counted, three hours, and the attended assignment
\* of the later event listed under upcoming.
C13_Witness ==
    \E p \in Procs :
        /\ req[p].op = "profile" /\ req[p].pc = "done" /\ req[p].resp = 200
        /\ req[p].user.userId = 1
        /\ req[p].totalEvents = 1 /\ req[p].totalHours = 3
        /\ \E x \in Range(req[p].upcoming) : x.event_id = 2 /\ x.attended
        /\ \A a \in volunteer_roles : a.volunteer_id = 1 => a.attended

\* The session so far: request 1 created an event with one role asking for
\* two volunteers, request 3 signed volunteer 1 up for that role, request 5
\* set the attended flag of that assignment.
EventCreated ==
    req[1].pc = "done" /\ req[1].resp = 201 /\ req[1].roles = <<[required |-> 2]>>

RolesCreated == {r.id : r \in {x \in roles : x.event_id = req[1].evId}}

SignedUp ==
    req[3].pc = "done" /\ req[3].resp = 201 /\ req[3].arg \in RolesCreated

AttendanceSet ==
    /\ req[5].pc = "done" /\ req[5].resp = 200 /\ req[5].attended
    /\ \E a \in volunteer_roles :
          a.id = req[5].arg /\ a.volunteer_id = 1 /\ a.role_id \in RolesCreated

\* The rows of a profile list that belong to the event of request 1.
OfEvent(list) == {i \in DOMAIN list : list[i].event_id = req[1].evId}

\* C14: in the session, the event created with one role is shown by getEvent
\* with exactly that role and no volunteer on it; the profile read after the
\* signup and before the event's date lists the event under upcoming with
\* attended false; the profile read after the date, once attendance is
\* recorded, lists it under past with attended true and not under upcoming,
\* with one event and three hours in the statistics.
C14_Session ==
    /\ [](/\ (EventCreated /\ req[2].pc = "done" /\ req[2].arg = req[1].evId) =>
                /\ req[2].resp = 200
                /\ Cardinality(req[2].rows) = 1
                /\ \A x \in req[2].rows : x.required = 2 /\ x.current_volunteers = 0
          /\ (EventCreated /\ SignedUp /\ req[4].pc = "done" /\ now < req[1].date) =>
                /\ req[4].resp = 200
                /\ Cardinality(OfEvent(req[4].upcoming)) = 1
                /\ \A i \in OfEvent(req[4].upcoming) : ~req[4].upcoming[i].attended
                /\ OfEvent(req[4].past) = {})
    /\ [][(/\ EventCreated /\ SignedUp /\ AttendanceSet
           /\ now >= req[1].date
           /\ Stepped(6)) =>
              /\ req[6].pc = "run" =>
                    req'[6].pc = "past" /\ OfEvent(req'[6].upcoming) = {}
              /\ req[6].pc = "past" =>
                    /\ req'[6].pc = "done" /\ req'[6].resp = 200
                    /\ Cardinality(OfEvent(req'[6].past)) = 1
                    /\ \A i \in OfEvent(req'[6].past) : req'[6].past[i].attended
                    /\ req'[6].totalEvents = 1 /\ req'[6].totalHours = 3]_vars

\* The session has run to its end: the event was shown with one unclaimed
\* role, the first profile had it under upcoming and not attended, attendance
\* was recorded after its date, and the second profile has it under past and
\* attended, counting one event and three hours.
C14_Witness ==
    /\ EventCreated /\ SignedUp /\ AttendanceSet
    /\ req[2].pc = "done" /\ req[2].resp = 200 /\ Cardinality(req[2].rows) = 1
    /\ req[4].pc = "done" /\ Cardinality(OfEvent(req[4].upcoming)) = 1
    /\ \A i \in OfEvent(req[4].upcoming) : ~req[4].upcoming[i].attended
    /\ req[6].pc = "done" /\ req[6].resp = 200
    /\ OfEvent(req[6].upcoming) = {}
    /\ \E i \in OfEvent(req[6].past) : req[6].past[i].attended
    /\ req[6].totalEvents = 1 /\ req[6].totalHours = 3

\* C15: getEvent answers 404 when its first query finds no event with the id
\* it names, and otherwise 200 with one entry for each role of that event
\* and no other, each carrying the number of volunteer_roles rows on the role
\* at the time of the second query, whatever the role's required_volunteers;
\* neither step of getEvent changes the store.
C15_GetEvent ==
    [][\A p \in Procs :
          (Stepped(p) /\ req[p].op = "getEvent") =>
              /\ UNCHANGED <<store, seqs, held>>
              /\ req[p].pc = "run" =>
                    (req'[p].found = NoEvent) = (\A e \in events : e.id # req'[p].arg)
              /\ (req[p].pc = "roles" /\ req[p].found = NoEvent) =>
                    req'[p].pc = "done" /\ req'[p].resp = 404 /\ req'[p].rows = {}
              /\ (req[p].pc = "roles" /\ req[p].found # NoEvent) =>
                    /\ req'[p].pc = "done" /\ req'[p].resp = 200
                    /\ {x.id : x \in req'[p].rows} =
                          {r.id : r \in {y \in roles : y.event_id = req[p].arg}}
                    /\ Cardinality(req'[p].rows) = Cardinality({x.id : x \in req'[p].rows})
                    /\ \A x \in req'[p].rows :
                          x.current_volunteers =
                              Cardinality({a \in volunteer_roles : a.role_id = x.id})]_vars

\* A getEvent showed the seeded role with three volunteers where two are
\* asked for, a third volunteer having signed up before its second query.
C15_Witness ==
    \E p, q \in Procs :
        /\ req[p].op = "getEvent" /\ req[p].pc = "done" /\ req[p].resp = 200
        /\ req[p].rows = {[id |-> 1, required |-> 2, current_volunteers |-> 3]}
        /\ req[q].op = "signup" /\ req[q].pc = "done" /\ req[q].resp = 201

\* C16: the INSERT step of a volunteer's signup for a role that exists and on
\* which the volunteer has no volunteer_roles row is answered 201 and adds
\* one row for the pair, however many rows the role has already, the role's
\* required_volunteers or more included.
C16_SignupUncapped ==
    [][\A p \in Procs :
          (/\ Stepped(p)
           /\ req[p].op = "signup" /\ req[p].pc = "insert"
           /\ RoleExists(req[p].arg)
           /\ Signups(req[p].user.userId, req[p].arg) = {}) =>
              /\ req'[p].pc = "done" /\ req'[p].resp = 201
              /\ \E a \in volunteer_roles' :
                    /\ a.volunteer_id = req[p].user.userId /\ a.role_id = req[p].arg
                    /\ volunteer_roles' = volunteer_roles \cup {a}
                    /\ a \notin volunteer_roles]_vars

\* Volunteer 3 signed up for the seeded role, which asks for two volunteers
\* and had two, and was answered 201; the role now has three.
C16_Witness ==
    \E p \in Procs :
        /\ req[p].op = "signup" /\ req[p].pc = "done" /\ req[p].resp = 201
        /\ req[p].user.userId = 3 /\ req[p].arg = 1
        /\ Cardinality({a \in volunteer_roles : a.role_id = 1}) = 3
        /\ \A r \in roles : r.id = 1 => r.required = 2

\* C17: a step that adds a volunteer_roles row adds it with attended false,
\* and a step that changes the attended flag of a row is the UPDATE of a
\* setAttendance request for that row, answered 200, whose caller is the
\* organization that owns the event of the row's role; every other step
\* leaves every flag as it was.
C17_AttendedFrame ==
    [][/\ \A b \in volunteer_roles' :
             (\A a \in volunteer_roles : a.id # b.id) => ~b.attended
       /\ \A a \in volunteer_roles, b \in volunteer_roles' :
             (a.id = b.id /\ a.attended # b.attended) =>
                 \E p \in Procs :
                     /\ Stepped(p)
                     /\ req[p].op = "setAttendance" /\ req[p].pc = "update"
                     /\ req[p].arg = a.id
                     /\ req'[p].pc = "done" /\ req'[p].resp = 200
                     /\ req[p].user.userType = "org"
                     /\ req[p].user.userId \in RecordOwners(a.id)]_vars

\* The volunteer_roles rows a list of a profile answer stands for.
Listed(list) == {list[i].record_id : i \in DOMAIN list}

\* C18: in the answer of a profile request, every assignment of the volunteer
\* is in exactly one of upcoming and past.  (No step of this specification
\* adds or removes a volunteer_roles row, so the assignments of the volunteer
\* are those that existed when the request started.)
C18_ExactlyOneList ==
    \A p \in Procs :
        (req[p].op = "profile" /\ req[p].pc = "done" /\ req[p].resp = 200) =>
            \A a \in Assignments(req[p].user.userId) :
                (a.record_id \in Listed(req[p].upcoming))
                    # (a.record_id \in Listed(req[p].past))

\* C19: the clients checked out of the pool are those of the createEvent
\* requests between pool.connect() and release(), and a createEvent request
\* that has released its client has been answered, with 201 or with 500.
C19_ReleasedAndAnswered ==
    /\ held = Cardinality({p \in Procs : req[p].client = "held"})
    /\ \A p \in Procs :
          (req[p].op = "createEvent" /\ req[p].client = "released") =>
              req[p].pc = "done" /\ req[p].resp \in {201, 500}

\* C20: whenever the page has loaded and none of its code is on the stack,
\* currentUser is set exactly when localStorage holds a token and a user and
\* the Authorization header is set, and then the header carries the stored
\* token, the token was signed for the stored user, and the stored user is
\* currentUser; a login() that fails changes none of the four; when logout()
\* returns, all four are cleared.
C20_SessionAgrees ==
    /\ []((Quiet /\ ~loading) =>
            /\ (currentUser # NullUser) =
                  (/\ localStorage.token # NullToken
                   /\ localStorage.user # NullUser
                   /\ authorization # NullToken)
            /\ currentUser # NullUser =>
                  /\ authorization = localStorage.token
                  /\ UserOf(localStorage.token.payload) = localStorage.user
                  /\ currentUser = localStorage.user)
    /\ [][/\ (\E c \in Calls : calls[c].pc = "flying" /\ calls'[c].pc = "failed") =>
                UNCHANGED <<currentUser, localStorage, authorization>>
          /\ (running.who = "logout" /\ running'.who = "none") =>
                /\ currentUser' = NullUser
                /\ localStorage' = [token |-> NullToken, user |-> NullUser]
                /\ authorization' = NullToken]_vars

\* Two calls of login() for different accounts have both come back; the one
\* answered second has its user and its token in all four places, and the
\* token answered first is in none.
C20_Witness ==
    \E c, d \in Calls :
        /\ Quiet
        /\ calls[c].pc = "done" /\ calls[d].pc = "done"
        /\ calls[c].credentials # calls[d].credentials
        /\ calls[c].token.serial = 1 /\ calls[d].token.serial = 2
        /\ currentUser = UserOf(calls[d].credentials)
        /\ authorization = calls[d].token
        /\ localStorage = [token |-> calls[d].token, user |-> currentUser]

====
